---- MODULE Spec2Model ----
(***************************************************************************)
(* Verification model of TuriX-CUA's structured action protocol and input  *)
(* synthesis engine.                                                       *)
(*                                                                         *)
(*   SpecInput   src/mac/actions.py: coordinate resolution, click, move    *)
(*               and drag event synthesis under the asyncio event loop     *)
(*   SpecDecode  src/agent/structured_llm.py: ActionItem decoding and the  *)
(*               ActorOutput action list                                   *)
(*                                                                         *)
(* Python numbers are modelled as exact rationals <<n, d>> (d > 0, lowest  *)
(* terms); binary floating-point rounding is not modelled.  Times are in   *)
(* milliseconds.                                                           *)
(***************************************************************************)
EXTENDS Integers, Sequences, FiniteSets, TLC

(***************************************************************************)
(* Exact rational arithmetic                                               *)
(***************************************************************************)
Abs(n) == IF n < 0 THEN -n ELSE n

RECURSIVE GCD(_, _)
GCD(a, b) == IF b = 0 THEN a ELSE GCD(b, a % b)

Norm(n, d) ==
    LET g == GCD(Abs(n), Abs(d))
        s == IF d < 0 THEN -1 ELSE 1
    IN  <<(s * n) \div g, (s * d) \div g>>

R(n) == <<n, 1>>
RAdd(a, b) == Norm(a[1] * b[2] + b[1] * a[2], a[2] * b[2])
RSub(a, b) == Norm(a[1] * b[2] - b[1] * a[2], a[2] * b[2])
RMul(a, b) == Norm(a[1] * b[1], a[2] * b[2])
RDiv(a, b) == Norm(a[1] * b[2], a[2] * b[1])
RGt(a, b) == a[1] * b[2] > b[1] * a[2]
RLe(a, b) == ~RGt(a, b)
RMax(a, b) == IF RGt(a, b) THEN a ELSE b

(***************************************************************************)
(* Inputs of the input synthesizer                                         *)
(***************************************************************************)
\* Display sizes (width, height) that _get_screen_size can report.
Screens == {<<2000, 1000>>, <<1000, 1000>>, <<1440, 900>>}

\* Coordinate values a model may put in a position: fractions, the boundary 1,
\* values just above it, and values on the 0-1000 scale.
Coords == {<<0, 1>>, <<1, 2>>, <<1, 1>>, <<3, 2>>, <<2, 1>>, <<500, 1>>, <<1000, 1>>}
Positions == Coords \X Coords

\* Endpoints used for drags (a subset of Positions, to bound the drag runs).
DragPositions ==
    {<<R(0), R(0)>>, <<R(1000), R(1000)>>, <<R(500), R(250)>>, <<<<1, 2>>, R(1)>>}

\* Pointer locations pyautogui.position() can report.
PointerPositions == {<<R(0), R(0)>>, <<R(37), R(41)>>}

\* Largest step count tried for a direct _drag_invisible call.
MaxSteps == 3
\* Durations (ms) tried for a direct _drag_invisible call.
Durations == {R(500), R(100)}

\* Adjustments (ms) of the wall clock tried during a drag: set back by a second.
WallClockSteps == {R(-1000)}
\* Last loop iteration after which a wall-clock adjustment is tried.
MaxAdjustIteration == 2

\* Most calls of _get_search_context one caller makes.
MaxCalls == 2
\* Longest list of search queries tried, and most results of one search.
MaxQueries == 4
MaxResults == 3

\* Most hotkey activations in one run, and most steps of agent.run.
MaxPresses == 2
MaxAgentSteps == 3

\* Scroll amounts and line counts tried: -MaxScroll..MaxScroll.
MaxScroll == 30
\* Key names tried for press and press_combination.
Keys == {"command", "shift", "3"}
\* Characters tried for type_into, as code points of Unicode scalar values:
\* "a", e-acute (non-ASCII, one UTF-16 unit) and U+1F600 (two UTF-16 units).
Chars == {97, 233, 128512}
\* Longest text tried for type_into.
MaxTextLen == 3
\* Positions tried for a scroll at a position.
ScrollPositions ==
    {<<R(0), R(0)>>, <<<<1, 2>>, <<1, 2>>>>, <<R(500), R(250)>>, <<R(1000), R(1000)>>}

(***************************************************************************)
(* Program constants (src/mac/actions.py)                                  *)
(***************************************************************************)
NormScale == 1000
SettleMs == 30
HighlightDurationMs == 1000
HighlightPulseExtraMs == 100
DefaultDragSteps == 60
DefaultDragDurationMs == 500
ScrollUpClamp == 25
ScrollDownClamp == 25
ScrollCutoffIndex == 25
ScrollSleepMs == 3
MaxQueriesToUse == 3
MaxSummaryLines == 8
LinesPerQuery == 2

\* ActorOutput.action: Field(..., min_items=0, max_items=10)
MinItems == 0
MaxItems == 10

(***************************************************************************)
(* Inputs of the action decoder                                            *)
(***************************************************************************)
\* The 14 kind fields of ActionItem, in declaration order.
Kinds == <<"done", "input_text", "open_app", "run_apple_script", "Hotkey",
           "multi_Hotkey", "RightSingle", "Click", "Drag", "move_mouse",
           "scroll_up", "scroll_down", "record_info", "wait">>
KindSet == {Kinds[i] : i \in 1..Len(Kinds)}

\* Raw JSON values of a field, by shape.  "absent": the key is missing; "obj":
\* an object the field's sub-model accepts; "bad": a value it rejects.
RawTokens == {"null", "obj", "bad", "empty_string", "empty_obj", "non_object"}
TokensOf(k) == IF k = "wait"
               THEN {"null", "obj", "empty_string", "empty_obj", "non_object"}
               ELSE {"null", "obj", "bad"}

\* Largest number of kind keys present in one raw entry.
MaxPresent == 2
\* Longest action list tried, and the most rejected entries put in one list.
MaxListLen == 11
MaxBadEntries == 1

VARIABLES
    screen,     \* <<width, height>> of the main display
    op,         \* the operation in progress or last finished, with its arguments
    pc,         \* position of the operation's coroutine
    events,     \* events posted and suspensions taken by the current call, in order
    now,        \* time (ms, rational) since the current call started
    target,     \* resolved pixel (abs_x, abs_y), or start pixel of a drag
    target2,    \* end pixel of a drag
    old_pos,    \* pointer position captured by _click_invisible
    hl,         \* highlight task: "none", "scheduled", "done", "failed"
    hlEnd,      \* time at which the highlight task's step ended
    wake,       \* time at which the pending asyncio.sleep expires
    dragI,      \* loop index: i of _drag_invisible, _ of _scroll_invisible
    result,     \* value returned by the operation: "none", "True", "None", "raised"
    raw,        \* raw ActionItem entry being decoded
    item,       \* decoded ActionItem, or the decode failure
    wire,       \* serialized form of item
    item2,      \* result of decoding wire
    phase,      \* position of the decode round trip
    rawList,    \* raw action list handed to ActorOutput
    actorOut,   \* validated ActorOutput, or the validation failure
    brainRaw,   \* raw brain payload handed to BrainOutput and BRAIN_SCHEMA
    brainOut,   \* validated BrainOutput, or the validation failure
    brainSchema,\* verdict of BRAIN_SCHEMA on brainRaw: "none", "valid", "invalid"
    brainPhase, \* "idle", "validated", "checked"
    use_search,      \* Planner.use_search
    search_context,  \* Planner._search_context: None, or a string by its lines
    callPc,          \* per caller: position in _get_search_context
    frame,           \* per caller: locals queries, loop position, summary_lines
    callRet,         \* per caller: value the last call returned, None before that
    calls,           \* per caller: calls of _get_search_context started
    decideRuns,      \* times _decide_search_queries was run
    fetchRuns,       \* times _fetch_search_results was run
    force_stop_hotkey, \* whether a force-stop hotkey is configured
    runnerPc,        \* runner(): "start", "awaiting", "returned", "raised"
    agent_task,      \* "none", "running", "cancelling", "finished", "failed", "cancelled"
    agentSteps,      \* steps agent.run has taken
    listener,        \* hotkey listener: "none", "started", "stopped"
    presses,         \* hotkey activations so far
    pending,         \* _force_stop callbacks scheduled on the loop, not yet run
    rlog             \* calls on the agent, the task and the listener, in order

inputVars == <<screen, op, pc, events, now, target, target2, old_pos, hl, hlEnd,
               wake, dragI, result>>
decodeVars == <<raw, item, wire, item2, phase, rawList, actorOut>>
brainVars == <<brainRaw, brainOut, brainSchema, brainPhase>>
plannerVars == <<use_search, search_context, callPc, frame, callRet, calls,
                 decideRuns, fetchRuns>>
runnerVars == <<force_stop_hotkey, runnerPc, agent_task, agentSteps, listener,
                presses, pending, rlog>>
otherVars == <<brainVars, plannerVars, runnerVars>>
vars == <<inputVars, decodeVars, otherVars>>

\* A raw brain payload: the three fields by shape, and whether an unknown key
\* is present.
BrainFields == {"analysis", "current_state", "read_files"}
BrainPayload(a, c, rf, extra) ==
    [fields |-> [k \in BrainFields |->
                    IF k = "analysis" THEN a
                    ELSE IF k = "current_state" THEN c ELSE rf],
     extra |-> extra]
NoBrainOutput == [ok |-> FALSE, fields |-> [k \in BrainFields |-> "None"]]

BrainIdle ==
    /\ brainRaw = BrainPayload("absent", "absent", "absent", FALSE)
    /\ brainOut = NoBrainOutput
    /\ brainSchema = "none"
    /\ brainPhase = "idle"

\* The coroutines of Planner that await _get_search_context.
Callers == {"edit_task", "continue_edit_task"}
NoFrame == [nq |-> 0, qi |-> 0, lines |-> <<>>]
\* Values of _search_context: None, or a string given by its summary lines (the
\* empty string has none).
NoContext == [none |-> TRUE, lines |-> <<>>]
Context(lines) == [none |-> FALSE, lines |-> lines]

\* A Planner after __init__, nothing called yet.
PlannerNew ==
    /\ search_context = NoContext
    /\ callPc = [c \in Callers |-> "idle"]
    /\ frame = [c \in Callers |-> NoFrame]
    /\ callRet = [c \in Callers |-> NoContext]
    /\ calls = [c \in Callers |-> 0]
    /\ decideRuns = 0
    /\ fetchRuns = 0

PlannerIdle == use_search = TRUE /\ PlannerNew

\* main() up to asyncio.run(runner()).
RunnerNew ==
    /\ runnerPc = "start"
    /\ agent_task = "none"
    /\ agentSteps = 0
    /\ listener = "none"
    /\ presses = 0
    /\ pending = 0
    /\ rlog = <<>>

RunnerIdle == force_stop_hotkey = FALSE /\ RunnerNew

OtherIdle == BrainIdle /\ PlannerIdle /\ RunnerIdle

(***************************************************************************)
(* Event log entries                                                       *)
(***************************************************************************)
\* One posted event: CGEventCreateMouseEvent(..., type, (x, y), button) posted
\* to `tap` at time t; `stamped` tells whether CGEventSetTimestamp was called.
Ev(type, x, y, button, tap, stamped, t) ==
    [type |-> type, x |-> x, y |-> y, button |-> button, tap |-> tap,
     stamped |-> stamped, ts |-> t, dur |-> R(0), key |-> "", arg |-> 0, units |-> 0]

\* One suspension: await asyncio.sleep(d) entered at time t.
Suspend(d, t) ==
    [type |-> "sleep", x |-> R(0), y |-> R(0), button |-> "none", tap |-> "none",
     stamped |-> FALSE, ts |-> t, dur |-> d, key |-> "", arg |-> 0, units |-> 0]

NoArg == <<R(0), R(0)>>
Op(name, position, position2, steps, duration, button) ==
    [name |-> name, position |-> position, position2 |-> position2,
     steps |-> steps, duration |-> duration, button |-> button,
     amount |-> 0, lines |-> 0, keys |-> <<>>, text |-> <<>>]

\* The executor awaits one operation at a time: a call starts when none is running.
Callable == pc = "idle"

(***************************************************************************)
(* Coordinate resolution                                                   *)
(***************************************************************************)
\* Faulty variant: positions above 1 taken as absolute pixels.
left_click_resolve_absolute(position, screen_w, screen_h) ==
    IF RGt(position[1], R(1)) /\ RGt(position[2], R(1))
    THEN <<position[1], position[2]>>
    ELSE <<RMul(position[1], R(screen_w)), RMul(position[2], R(screen_h))>>

\* Faulty variant: both axes scaled by the screen height.
left_click_resolve_height(position, screen_w, screen_h) ==
    IF RGt(position[1], R(1)) /\ RGt(position[2], R(1))
    THEN <<RMul(RDiv(position[1], R(NormScale)), R(screen_h)),
           RMul(RDiv(position[2], R(NormScale)), R(screen_h))>>
    ELSE <<RMul(position[1], R(screen_h)), RMul(position[2], R(screen_h))>>

left_click_resolve(position, screen_w, screen_h) ==
    IF RGt(position[1], R(1)) /\ RGt(position[2], R(1))
    THEN <<RMul(RDiv(position[1], R(NormScale)), R(screen_w)),
           RMul(RDiv(position[2], R(NormScale)), R(screen_h))>>
    ELSE <<RMul(position[1], R(screen_w)), RMul(position[2], R(screen_h))>>

\* Faulty variant: the 0-1000 scale applied in both branches.
right_click_resolve_permille(position, screen_w, screen_h) ==
    <<RMul(RDiv(position[1], R(NormScale)), R(screen_w)),
      RMul(RDiv(position[2], R(NormScale)), R(screen_h))>>

right_click_resolve(position, screen_w, screen_h) ==
    IF RGt(position[1], R(1)) /\ RGt(position[2], R(1))
    THEN <<RMul(RDiv(position[1], R(NormScale)), R(screen_w)),
           RMul(RDiv(position[2], R(NormScale)), R(screen_h))>>
    ELSE <<RMul(position[1], R(screen_w)), RMul(position[2], R(screen_h))>>

move_to_resolve(position, screen_w, screen_h) ==
    IF RGt(position[1], R(1)) /\ RGt(position[2], R(1))
    THEN <<RMul(RDiv(position[1], R(NormScale)), R(screen_w)),
           RMul(RDiv(position[2], R(NormScale)), R(screen_h))>>
    ELSE <<RMul(position[1], R(screen_w)), RMul(position[2], R(screen_h))>>

\* drag_pixel: one joint test over all four components; result <<x1, y1, x2, y2>>.
drag_resolve(start, end, screen_w, screen_h) ==
    IF /\ RGt(start[1], R(1)) /\ RGt(start[2], R(1))
       /\ RGt(end[1], R(1)) /\ RGt(end[2], R(1))
    THEN <<RMul(RDiv(start[1], R(NormScale)), R(screen_w)),
           RMul(RDiv(start[2], R(NormScale)), R(screen_h)),
           RMul(RDiv(end[1], R(NormScale)), R(screen_w)),
           RMul(RDiv(end[2], R(NormScale)), R(screen_h))>>
    ELSE <<RMul(start[1], R(screen_w)), RMul(start[2], R(screen_h)),
           RMul(end[1], R(screen_w)), RMul(end[2], R(screen_h))>>

(***************************************************************************)
(* _click_invisible and the highlight task                                 *)
(***************************************************************************)
\* The button constants chosen at the top of _click_invisible.
ClickButton(button) == IF button = "left" THEN "left" ELSE "right"

\* The pointer-moved event posted before the settle sleep.
ClickMove(x, y, button, t) ==
    <<Ev("moved", x, y, ClickButton(button), "session", FALSE, t)>>

\* Faulty variant: the pointer is moved back to the captured position after the release.
ClickPressRelease_restore(x, y, button, t) ==
    <<Ev("down", x, y, ClickButton(button), "hid", FALSE, t),
      Ev("up", x, y, ClickButton(button), "hid", FALSE, t),
      Ev("moved", old_pos[1], old_pos[2], ClickButton(button), "session", FALSE, t)>>

\* The press and release posted after the settle sleep.
ClickPressRelease(x, y, button, t) ==
    <<Ev("down", x, y, ClickButton(button), "hid", FALSE, t),
      Ev("up", x, y, ClickButton(button), "hid", FALSE, t)>>

\* _click_invisible up to its await: schedules the highlight task, captures the
\* pointer position p, posts the move and suspends in asyncio.sleep(0.03).
click_invisible_begin(x, y, button, p) ==
    /\ hl' = "scheduled"
    /\ hlEnd' = R(0)
    /\ old_pos' = p
    /\ now' = R(0)
    /\ target' = <<x, y>>
    /\ target2' = <<x, y>>
    /\ events' = ClickMove(x, y, button, R(0)) \o <<Suspend(R(SettleMs), R(0))>>
    /\ wake' = R(SettleMs)
    /\ pc' = "settle"
    /\ dragI' = 0
    /\ result' = "none"

\* How long the highlight task's single step occupies the event-loop thread:
\* CFRunLoopRunInMode(..., duration + .1, False) is a blocking call and the
\* coroutine has no await.
HighlightBlockMs == R(HighlightDurationMs + HighlightPulseExtraMs)

\* The event loop runs the highlight task's step.  The task was put on the ready
\* queue by create_task before the click's sleep timer existed, so it runs at the
\* click's first suspension.  It either raises before the run-loop pulse (the
\* exception is stored in the task) or blocks the loop thread for the pulse.
flash_click_highlight ==
    /\ hl = "scheduled"
    /\ pc = "settle"
    /\ \/ /\ hl' = "failed"
          /\ now' = now
       \/ /\ hl' = "done"
          /\ now' = RAdd(now, HighlightBlockMs)
    /\ hlEnd' = now'
    /\ UNCHANGED <<screen, op, pc, events, target, target2, old_pos, wake, dragI,
                   result>>
    /\ UNCHANGED decodeVars
    /\ UNCHANGED otherVars

\* The sleep timer is served once the ready queue is empty and the timer has
\* expired: _click_invisible posts button-down and button-up and returns.
click_invisible_resume ==
    /\ pc = "settle"
    /\ hl # "scheduled"
    /\ now' = RMax(now, wake)
    /\ events' = events \o
           ClickPressRelease(target[1], target[2],
                             op.button, now')
    /\ pc' = "done"
    /\ result' = "True"
    /\ UNCHANGED <<screen, op, target, target2, old_pos, hl, hlEnd, wake, dragI>>
    /\ UNCHANGED decodeVars
    /\ UNCHANGED otherVars

left_click_pixel ==
    /\ Callable
    /\ \E position \in Positions, p \in PointerPositions :
          /\ op' = Op("left_click_pixel", position, NoArg, 0, R(0), "left")
          /\ LET a == left_click_resolve(position, screen[1], screen[2])
             IN  click_invisible_begin(a[1], a[2], "left", p)
    /\ UNCHANGED screen
    /\ UNCHANGED decodeVars
    /\ UNCHANGED otherVars

right_click_pixel ==
    /\ Callable
    /\ \E position \in Positions, p \in PointerPositions :
          /\ op' = Op("right_click_pixel", position, NoArg, 0, R(0), "right")
          /\ LET a == right_click_resolve(position, screen[1], screen[2])
             IN  click_invisible_begin(a[1], a[2], "right", p)
    /\ UNCHANGED screen
    /\ UNCHANGED decodeVars
    /\ UNCHANGED otherVars

move_to ==
    /\ Callable
    /\ \E position \in Positions :
          /\ op' = Op("move_to", position, NoArg, 0, R(0), "none")
          /\ LET a == move_to_resolve(position, screen[1], screen[2])
             IN  /\ events' = <<Ev("moved", a[1], a[2], "left", "session", FALSE, R(0))>>
                 /\ target' = a
                 /\ target2' = a
    /\ now' = R(0)
    /\ pc' = "done"
    /\ result' = "True"
    /\ dragI' = 0
    /\ UNCHANGED <<screen, old_pos, hl, hlEnd, wake>>
    /\ UNCHANGED decodeVars
    /\ UNCHANGED otherVars

(***************************************************************************)
(* _drag_invisible                                                         *)
(***************************************************************************)
\* Faulty variant: the loop index starts at 0 (range(steps)).
DragPoint_from_zero(x1, y1, x2, y2, i, steps) ==
    <<RAdd(x1, RDiv(RMul(RSub(x2, x1), R(i - 1)), R(steps))),
      RAdd(y1, RDiv(RMul(RSub(y2, y1), R(i - 1)), R(steps)))>>

\* The i-th interpolated point: (x1 + (x2-x1)*i/steps, y1 + (y2-y1)*i/steps).
DragPoint(x1, y1, x2, y2, i, steps) ==
    <<RAdd(x1, RDiv(RMul(RSub(x2, x1), R(i)), R(steps))),
      RAdd(y1, RDiv(RMul(RSub(y2, y1), R(i)), R(steps)))>>

\* step_t = duration/steps
DragStepT(duration, steps) == RDiv(duration, R(steps))

\* One loop iteration up to its await: the dragged event, stamped with the
\* reading `stamp` of time.time_ns(), then asyncio.sleep(step_t) at loop time t.
DragIteration(x1, y1, x2, y2, i, steps, duration, t, stamp) ==
    LET pt == DragPoint(x1, y1, x2, y2, i, steps)
    IN  <<Ev("dragged", pt[1], pt[2], "left", "hid", TRUE, stamp),
          Suspend(DragStepT(duration, steps), t)>>

\* time.time_ns() reads the wall clock, which the system may set back while the
\* loop time runs on.  The offset of the wall clock against the loop time at the
\* last reading: stamp of the last dragged event minus the loop time of its sleep.
WallClockOffset ==
    RSub(events[Len(events) - 1].ts, events[Len(events)].ts)

\* The offsets the next reading can have: the same, or, while the clock was not
\* yet adjusted and the loop is within its first MaxAdjustIteration iterations,
\* an adjustment from WallClockSteps further.
NextWallClockOffsets(i) ==
    {WallClockOffset} \cup
        (IF WallClockOffset = R(0) /\ i <= MaxAdjustIteration
         THEN {RAdd(WallClockOffset, a) : a \in WallClockSteps}
         ELSE {})

\* The button-down posted at the start pixel.
DragDown(x1, y1, t) == <<Ev("down", x1, y1, "left", "hid", FALSE, t)>>

\* The button-up posted at the end pixel after the loop.
DragUp(x2, y2, t) == <<Ev("up", x2, y2, "left", "hid", FALSE, t)>>

\* _drag_invisible up to its first await.  With steps = 0 the division
\* duration/steps raises ZeroDivisionError after button-down was posted.
drag_invisible_begin(x1, y1, x2, y2, duration, steps) ==
    /\ now' = R(0)
    /\ target' = <<x1, y1>>
    /\ target2' = <<x2, y2>>
    /\ IF steps = 0
       THEN /\ events' = DragDown(x1, y1, R(0))
            /\ pc' = "done"
            /\ result' = "raised"
            /\ dragI' = 0
            /\ wake' = R(0)
       ELSE /\ events' = DragDown(x1, y1, R(0)) \o
                         DragIteration(x1, y1, x2, y2, 1, steps, duration, R(0), R(0))
            /\ pc' = "drag"
            /\ result' = "none"
            /\ dragI' = 1
            /\ wake' = DragStepT(duration, steps)

\* The sleep of iteration dragI expires: the next iteration runs up to its await,
\* or the loop is over and button-up is posted.
drag_invisible_resume ==
    /\ pc = "drag"
    /\ now' = RMax(now, wake)
    /\ IF dragI < op.steps
       THEN /\ \E offset \in NextWallClockOffsets(dragI) :
                  events' = events \o
                     DragIteration(target[1], target[2], target2[1], target2[2],
                                   dragI + 1, op.steps, op.duration, now',
                                   RAdd(now', offset))
            /\ dragI' = dragI + 1
            /\ wake' = RAdd(now', DragStepT(op.duration, op.steps))
            /\ UNCHANGED <<pc, result>>
       ELSE /\ events' = events \o DragUp(target2[1], target2[2], now')
            /\ pc' = "done"
            /\ result' = "True"
            /\ UNCHANGED <<dragI, wake>>
    /\ UNCHANGED <<screen, op, target, target2, old_pos, hl, hlEnd>>
    /\ UNCHANGED decodeVars
    /\ UNCHANGED otherVars

\* drag_pixel(start, end): resolves both endpoints and drags with the defaults.
drag_pixel ==
    /\ Callable
    /\ \E start \in DragPositions, end \in DragPositions :
          /\ op' = Op("drag_pixel", start, end, DefaultDragSteps,
                      R(DefaultDragDurationMs), "left")
          /\ LET a == drag_resolve(start, end, screen[1], screen[2])
             IN  drag_invisible_begin(a[1], a[2], a[3], a[4],
                                      R(DefaultDragDurationMs), DefaultDragSteps)
    /\ UNCHANGED <<screen, old_pos, hl, hlEnd>>
    /\ UNCHANGED decodeVars
    /\ UNCHANGED otherVars

\* A direct call _drag_invisible(x1, y1, x2, y2, duration, steps) with a
\* configured duration and step count.
drag_invisible ==
    /\ Callable
    /\ \E start \in DragPositions, end \in DragPositions,
          duration \in Durations, steps \in 0..MaxSteps :
          /\ op' = Op("_drag_invisible", start, end, steps, duration, "left")
          /\ drag_invisible_begin(start[1], start[2], end[1], end[2], duration, steps)
    /\ UNCHANGED <<screen, old_pos, hl, hlEnd>>
    /\ UNCHANGED decodeVars
    /\ UNCHANGED otherVars

(***************************************************************************)
(* _scroll_invisible and its callers                                       *)
(***************************************************************************)
\* CGEventCreateScrollWheelEvent(None, kCGScrollEventUnitLine, 1, direction),
\* posted to the session tap: one line, delta `direction`.
ScrollEv(direction, t) ==
    [Ev("scroll", R(0), R(0), "none", "session", FALSE, t) EXCEPT !.arg = direction]

\* CGWarpMouseCursorPosition((x, y)).
WarpEv(x, y, t) == Ev("warp", x, y, "none", "none", FALSE, t)

\* direction = 1 if lines > 0 else -1
ScrollDirection(lines) == IF lines > 0 THEN 1 ELSE -1

\* One loop iteration up to its await: the scroll event, then asyncio.sleep(0.003).
ScrollIteration(lines, t) ==
    <<ScrollEv(ScrollDirection(lines), t), Suspend(R(ScrollSleepMs), t)>>

\* Whether the loop is left after the sleep of the iteration with index i:
\* the break at index 25, or range(abs(lines)) is exhausted.
ScrollLoopOver(lines, i) == i = ScrollCutoffIndex \/ i + 1 >= Abs(lines)

\* What the caller of _scroll_invisible returns once the loop is over.
ScrollResult(name) == IF name = "_scroll_invisible" THEN "None" ELSE "True"

\* _scroll_invisible(lines) up to its first await, after the caller posted `pre`.
scroll_invisible_begin(name, lines, pre) ==
    /\ now' = R(0)
    /\ IF Abs(lines) = 0
       THEN /\ events' = pre
            /\ pc' = "done"
            /\ result' = ScrollResult(name)
            /\ wake' = R(0)
       ELSE /\ events' = pre \o ScrollIteration(lines, R(0))
            /\ pc' = "scroll"
            /\ result' = "none"
            /\ wake' = R(ScrollSleepMs)
    /\ dragI' = 0

\* The sleep of the iteration with index dragI expires: the break test, then the
\* next iteration up to its await or the return to the caller.
scroll_invisible_resume ==
    /\ pc = "scroll"
    /\ now' = RMax(now, wake)
    /\ IF ScrollLoopOver(op.lines, dragI)
       THEN /\ pc' = "done"
            /\ result' = ScrollResult(op.name)
            /\ UNCHANGED <<events, dragI, wake>>
       ELSE /\ events' = events \o ScrollIteration(op.lines, now')
            /\ dragI' = dragI + 1
            /\ wake' = RAdd(now', R(ScrollSleepMs))
            /\ UNCHANGED <<pc, result>>
    /\ UNCHANGED <<screen, op, target, target2, old_pos, hl, hlEnd>>
    /\ UNCHANGED decodeVars
    /\ UNCHANGED otherVars

ScrollOp(name, position, amount, lines) ==
    [Op(name, position, NoArg, 0, R(0), "none") EXCEPT !.amount = amount,
                                                       !.lines = lines]

\* Faulty variant: no upper clamp in scroll_down.
scroll_down_lines_unclamped(amount) == -amount

\* The line count scroll_up hands to _scroll_invisible.
scroll_up_lines(amount) == IF amount > ScrollUpClamp THEN ScrollUpClamp ELSE amount

\* The line count scroll_down hands to _scroll_invisible.
scroll_down_lines(amount) ==
    -(IF amount > ScrollDownClamp THEN ScrollDownClamp ELSE amount)

scroll_up ==
    /\ Callable
    /\ \E amount \in -MaxScroll..MaxScroll :
          /\ op' = ScrollOp("scroll_up", NoArg, amount, scroll_up_lines(amount))
          /\ scroll_invisible_begin("scroll_up", scroll_up_lines(amount), <<>>)
    /\ UNCHANGED <<screen, target, target2, old_pos, hl, hlEnd>>
    /\ UNCHANGED decodeVars
    /\ UNCHANGED otherVars

scroll_down ==
    /\ Callable
    /\ \E amount \in -MaxScroll..MaxScroll :
          /\ op' = ScrollOp("scroll_down", NoArg, amount, scroll_down_lines(amount))
          /\ scroll_invisible_begin("scroll_down", scroll_down_lines(amount), <<>>)
    /\ UNCHANGED <<screen, target, target2, old_pos, hl, hlEnd>>
    /\ UNCHANGED decodeVars
    /\ UNCHANGED otherVars

\* A direct call _scroll_invisible(lines).
scroll_invisible ==
    /\ Callable
    /\ \E lines \in -MaxScroll..MaxScroll :
          /\ op' = ScrollOp("_scroll_invisible", NoArg, lines, lines)
          /\ scroll_invisible_begin("_scroll_invisible", lines, <<>>)
    /\ UNCHANGED <<screen, target, target2, old_pos, hl, hlEnd>>
    /\ UNCHANGED decodeVars
    /\ UNCHANGED otherVars

\* The pixel _scroll_invisible_at_position warps to: always the 0-1000 scale.
scroll_at_position_resolve(x, y, screen_w, screen_h) ==
    <<RMul(RDiv(x, R(NormScale)), R(screen_w)),
      RMul(RDiv(y, R(NormScale)), R(screen_h))>>

\* Faulty variant: the pointer is moved by a posted event instead of a warp.
ScrollAtPositionWarp_posted(x, y, t) ==
    <<Ev("moved", x, y, "left", "session", FALSE, t)>>

\* The warp issued before the scroll.
ScrollAtPositionWarp(x, y, t) == <<WarpEv(x, y, t)>>

\* _scroll_invisible_at_position(x, y, lines)
scroll_invisible_at_position ==
    /\ Callable
    /\ \E position \in ScrollPositions, lines \in -MaxScroll..MaxScroll :
          /\ op' = ScrollOp("_scroll_invisible_at_position", position, lines, lines)
          /\ LET a == scroll_at_position_resolve(position[1], position[2],
                                                 screen[1], screen[2])
             IN  /\ target' = a
                 /\ target2' = a
                 /\ scroll_invisible_begin("_scroll_invisible_at_position", lines,
                                           ScrollAtPositionWarp(a[1], a[2], R(0)))
    /\ UNCHANGED <<screen, old_pos, hl, hlEnd>>
    /\ UNCHANGED decodeVars
    /\ UNCHANGED otherVars

(***************************************************************************)
(* Keyboard: press, press_combination, type_into                           *)
(***************************************************************************)
\* A pyautogui call (keyDown, keyUp or press) with its key name.
KeyEv(call, key, t) ==
    [Ev(call, R(0), R(0), "none", "pyautogui", FALSE, t) EXCEPT !.key = key]

\* units = len(char.encode("utf-16-le")) // 2 for a Unicode scalar value.
UTF16Units(ch) == IF ch < 65536 THEN 1 ELSE 2

\* _unicode_event(char, down): a keyboard event with virtual key 0 carrying
\* `units` UTF-16 units of char, posted to the session tap.
unicode_event(ch, down, t) ==
    [Ev(IF down THEN "unicode_down" ELSE "unicode_up", R(0), R(0), "none",
        "session", FALSE, t) EXCEPT !.arg = ch, !.units = UTF16Units(ch)]

KeyOp(name, keys, text) ==
    [Op(name, NoArg, NoArg, 0, R(0), "none") EXCEPT !.keys = keys, !.text = text]

\* press(key): one pyautogui.press call.
press ==
    /\ Callable
    /\ \E key \in Keys :
          /\ op' = KeyOp("press", <<key>>, <<>>)
          /\ events' = <<KeyEv("press", key, R(0))>>
    /\ pc' = "done"
    /\ result' = "True"
    /\ now' = R(0)
    /\ UNCHANGED <<screen, target, target2, old_pos, hl, hlEnd, wake, dragI>>
    /\ UNCHANGED decodeVars
    /\ UNCHANGED otherVars

\* The keyDown calls of a combination, in the order of the statements.
CombinationDowns(keys) == [i \in 1..Len(keys) |-> KeyEv("keyDown", keys[i], R(0))]

\* Faulty variant: keys released in the order they were pressed.
CombinationUps_listed_order(keys) ==
    [i \in 1..Len(keys) |-> KeyEv("keyUp", keys[i], R(0))]

\* The keyUp calls of a combination, in the order of the statements.
CombinationUps(keys) ==
    [i \in 1..Len(keys) |-> KeyEv("keyUp", keys[Len(keys) + 1 - i], R(0))]

\* press_combination(key1, key2, key3=None); no await, so one step.
press_combination ==
    /\ Callable
    /\ \E key1 \in Keys, key2 \in Keys, key3 \in Keys \cup {"None"} :
          LET keys == IF key3 # "None" THEN <<key1, key2, key3>>
                                        ELSE <<key1, key2>>
          IN  /\ op' = KeyOp("press_combination", keys, <<>>)
              /\ events' = CombinationDowns(keys) \o CombinationUps(keys)
    /\ pc' = "done"
    /\ result' = "True"
    /\ now' = R(0)
    /\ UNCHANGED <<screen, target, target2, old_pos, hl, hlEnd, wake, dragI>>
    /\ UNCHANGED decodeVars
    /\ UNCHANGED otherVars

\* The texts tried: every sequence of Chars up to MaxTextLen.
Texts == UNION {[1..n -> Chars] : n \in 0..MaxTextLen}

\* Faulty variant: all key-downs of the text first, then all key-ups.
TypeEvents_downs_first(text) ==
    [i \in 1..Len(text) |-> unicode_event(text[i], TRUE, R(0))]
        \o [i \in 1..Len(text) |-> unicode_event(text[i], FALSE, R(0))]

\* for ch in text: await _unicode_event(ch, True); await _unicode_event(ch, False)
\* Event 2k-1 is the key-down and event 2k the key-up of the k-th character.
TypeEvents(text) ==
    [j \in 1..(2 * Len(text)) |->
        unicode_event(text[(j + 1) \div 2], j % 2 = 1, R(0))]

\* type_into(text); _unicode_event never suspends, so the loop is one step.
type_into ==
    /\ Callable
    /\ \E text \in Texts :
          /\ op' = KeyOp("type_into", <<>>, text)
          /\ events' = TypeEvents(text)
    /\ pc' = "done"
    /\ result' = "True"
    /\ now' = R(0)
    /\ UNCHANGED <<screen, target, target2, old_pos, hl, hlEnd, wake, dragI>>
    /\ UNCHANGED decodeVars
    /\ UNCHANGED otherVars

(***************************************************************************)
(* ActionItem decoding (src/agent/structured_llm.py)                       *)
(***************************************************************************)
\* A raw entry: the value of every kind key, and whether the object also holds
\* a key that is no field of ActionItem.
RawEntry(f, extra) == [fields |-> f, extra |-> extra]
NoRaw == RawEntry([k \in KindSet |-> "absent"], FALSE)

\* A decode result: ok with each field None or set, or a validation failure.
NoItem == [ok |-> FALSE, fields |-> [k \in KindSet |-> "None"]]
NoActorOutput == [ok |-> FALSE, action |-> <<>>]

DecodeIdle ==
    /\ raw = NoRaw
    /\ item = NoItem
    /\ wire = NoRaw
    /\ item2 = NoItem
    /\ phase = "idle"
    /\ rawList = <<>>
    /\ actorOut = NoActorOutput

RawEntries ==
    { RawEntry([k \in KindSet |-> IF k \in S THEN f[k] ELSE "absent"], extra) :
        <<S, f, extra>> \in
           { <<S, f, extra>> \in UNION { {S} \X [S -> RawTokens] \X BOOLEAN :
                    S \in {T \in SUBSET KindSet : Cardinality(T) <= MaxPresent} } :
               \A k \in S : f[k] \in TokensOf(k) } }

\* Faulty variant: None is left as it is.
fix_empty_string_keep_none(v) ==
    IF v = "empty_string" THEN "empty_obj"
    ELSE IF v = "null" THEN "null"
    ELSE IF v \notin {"obj", "empty_obj"} THEN "empty_obj"
    ELSE v

\* The "before" validator of field wait.
fix_empty_string(v) ==
    IF v = "empty_string" \/ v = "null" THEN "empty_obj"
    ELSE IF v \notin {"obj", "empty_obj"} THEN "empty_obj"
    ELSE v

\* Whether the sub-model of field k (src.controller.views) accepts value v.
SubModelAccepts(k, v) ==
    IF k \in {"wait", "done"} THEN v \in {"obj", "empty_obj"} ELSE v = "obj"

\* Validation of one Optional[...] = None field: the field's value after
\* validation, or "error".  A "before" validator runs only on a supplied value.
ValidateField(k, v) ==
    LET w == IF k = "wait" /\ v # "absent" THEN fix_empty_string(v) ELSE v
    IN  IF w \in {"absent", "null"} THEN "None"
        ELSE IF SubModelAccepts(k, w) THEN "set"
        ELSE "error"

\* ActionItem validation of a raw entry.  Keys that are no field are ignored;
\* there is no validator over the fields together.
ActionItem(r) ==
    LET f == [k \in KindSet |-> ValidateField(k, r.fields[k])]
    IN  IF \E k \in KindSet : f[k] = "error"
        THEN NoItem
        ELSE [ok |-> TRUE, fields |-> f]

\* The value a populated field serializes to.
DumpValue(k) == IF k \in {"wait", "done"} THEN "empty_obj" ELSE "obj"

\* model_dump of an ActionItem, with or without exclude_none.
model_dump(it, exclude_none) ==
    RawEntry([k \in KindSet |->
                 IF it.fields[k] = "set" THEN DumpValue(k)
                 ELSE IF exclude_none THEN "absent" ELSE "null"],
             FALSE)

Populated(it) == {k \in KindSet : it.fields[k] = "set"}

decode_entry ==
    /\ phase = "idle"
    /\ \E r \in RawEntries :
          /\ raw' = r
          /\ item' = ActionItem(r)
    /\ phase' = "decoded"
    /\ UNCHANGED <<wire, item2, rawList, actorOut>>
    /\ UNCHANGED inputVars
    /\ UNCHANGED otherVars

dump_item ==
    /\ phase = "decoded"
    /\ item.ok
    /\ \E exclude_none \in BOOLEAN : wire' = model_dump(item, exclude_none)
    /\ phase' = "dumped"
    /\ UNCHANGED <<raw, item, item2, rawList, actorOut>>
    /\ UNCHANGED inputVars
    /\ UNCHANGED otherVars

redecode_entry ==
    /\ phase = "dumped"
    /\ item2' = ActionItem(wire)
    /\ phase' = "redecoded"
    /\ UNCHANGED <<raw, item, wire, rawList, actorOut>>
    /\ UNCHANGED inputVars
    /\ UNCHANGED otherVars

(***************************************************************************)
(* ActorOutput                                                             *)
(***************************************************************************)
ClickEntry == RawEntry([k \in KindSet |-> IF k = "Click" THEN "obj" ELSE "absent"], FALSE)
WaitEntry ==
    RawEntry([k \in KindSet |-> IF k = "wait" THEN "empty_string" ELSE "absent"], FALSE)
BadEntry == RawEntry([k \in KindSet |-> IF k = "Drag" THEN "bad" ELSE "absent"], FALSE)
ListEntries == {ClickEntry, WaitEntry, BadEntry}

BadCount(l) == Cardinality({i \in 1..Len(l) : l[i] = BadEntry})

\* Faulty variant: a list that is too long is cut to its first max_items entries.
ActorOutput_truncate(l) ==
    LET m == IF Len(l) > MaxItems THEN MaxItems ELSE Len(l)
        decoded == [i \in 1..m |-> ActionItem(l[i])]
    IN  IF \E i \in 1..m : ~decoded[i].ok
        THEN NoActorOutput
        ELSE [ok |-> TRUE, action |-> decoded]

\* ActorOutput validation of an action list: the length constraints of the
\* field, then every entry as an ActionItem, in order.
ActorOutput(l) ==
    LET decoded == [i \in 1..Len(l) |-> ActionItem(l[i])]
    IN  IF Len(l) < MinItems \/ Len(l) > MaxItems
        THEN NoActorOutput
        ELSE IF \E i \in 1..Len(l) : ~decoded[i].ok
        THEN NoActorOutput
        ELSE [ok |-> TRUE, action |-> decoded]

\* The caller assembles the raw action list, one entry at a time.
list_append ==
    /\ phase \in {"idle", "list"}
    /\ Len(rawList) < MaxListLen
    /\ \E e \in ListEntries :
          /\ BadCount(Append(rawList, e)) <= MaxBadEntries
          /\ rawList' = Append(rawList, e)
    /\ phase' = "list"
    /\ UNCHANGED <<raw, item, wire, item2, actorOut>>
    /\ UNCHANGED inputVars
    /\ UNCHANGED otherVars

actor_validate ==
    /\ phase \in {"idle", "list"}
    /\ actorOut' = ActorOutput(rawList)
    /\ phase' = "validated"
    /\ UNCHANGED <<raw, item, wire, item2, rawList>>
    /\ UNCHANGED inputVars
    /\ UNCHANGED otherVars

InputIdle ==
    /\ screen = <<1000, 1000>>
    /\ op = Op("none", NoArg, NoArg, 0, R(0), "none")
    /\ pc = "idle"
    /\ events = <<>>
    /\ now = R(0)
    /\ target = NoArg
    /\ target2 = NoArg
    /\ old_pos = NoArg
    /\ hl = "none"
    /\ hlEnd = R(0)
    /\ wake = R(0)
    /\ dragI = 0
    /\ result = "none"

InitDecode == InputIdle /\ DecodeIdle /\ OtherIdle

NextDecode ==
    \/ decode_entry
    \/ dump_item
    \/ redecode_entry
    \/ list_append
    \/ actor_validate

SpecDecode == InitDecode /\ [][NextDecode]_vars

(***************************************************************************)
(* The input synthesizer as a state machine                                *)
(***************************************************************************)
InputInit ==
    /\ screen \in Screens
    /\ op = Op("none", NoArg, NoArg, 0, R(0), "none")
    /\ pc = "idle"
    /\ events = <<>>
    /\ now = R(0)
    /\ target = NoArg
    /\ target2 = NoArg
    /\ old_pos = NoArg
    /\ hl = "none"
    /\ hlEnd = R(0)
    /\ wake = R(0)
    /\ dragI = 0
    /\ result = "none"

InitInput == InputInit /\ DecodeIdle /\ OtherIdle

\* The operation's coroutine returns (or its exception propagates) to the caller,
\* which may then await the next operation.
op_return ==
    /\ pc = "done"
    /\ pc' = "idle"
    /\ op' = Op("none", NoArg, NoArg, 0, R(0), "none")
    /\ events' = <<>>
    /\ now' = R(0)
    /\ target' = NoArg
    /\ target2' = NoArg
    /\ old_pos' = NoArg
    /\ hl' = "none"
    /\ hlEnd' = R(0)
    /\ wake' = R(0)
    /\ dragI' = 0
    /\ result' = "none"
    /\ UNCHANGED screen
    /\ UNCHANGED decodeVars
    /\ UNCHANGED otherVars

NextInput ==
    \/ left_click_pixel
    \/ right_click_pixel
    \/ move_to
    \/ flash_click_highlight
    \/ click_invisible_resume
    \/ drag_pixel
    \/ drag_invisible
    \/ drag_invisible_resume
    \/ scroll_up
    \/ scroll_down
    \/ scroll_invisible
    \/ scroll_invisible_at_position
    \/ scroll_invisible_resume
    \/ press
    \/ press_combination
    \/ type_into
    \/ op_return

SpecInput == InitInput /\ [][NextInput]_vars

(***************************************************************************)
(* BrainOutput and BRAIN_SCHEMA                                            *)
(***************************************************************************)
\* Raw JSON values of a brain field, by shape.  "obj": an object with all the
\* required string members; "bad": anything else that is not null;
\* "empty_files" (read_files only): {"files": []}.
BrainTokens(k) ==
    IF k = "read_files" THEN {"absent", "null", "obj", "empty_files", "bad"}
    ELSE {"absent", "null", "obj", "bad"}

BrainPayloads ==
    {BrainPayload(a, c, rf, extra) :
        a \in BrainTokens("analysis"), c \in BrainTokens("current_state"),
        rf \in BrainTokens("read_files"), extra \in BOOLEAN}

\* Whether the sub-model of field k accepts value v.  ReadFilesRequest.files is
\* a List[str] without a length constraint.
BrainSubModelAccepts(k, v) ==
    IF k = "read_files" THEN v \in {"obj", "empty_files"} ELSE v = "obj"

\* Validation of one Optional[...] = None field of BrainOutput.
BrainValidateField(k, v) ==
    IF v \in {"absent", "null"} THEN "None"
    ELSE IF BrainSubModelAccepts(k, v) THEN "set"
    ELSE "error"

\* Faulty variant: the read-files shape only looks at analysis.
validate_output_analysis_only(f) ==
    IF f["read_files"] = "set"
    THEN ~(f["analysis"] = "set")
    ELSE f["analysis"] = "set" /\ f["current_state"] = "set"

\* The "after" validator: TRUE when it returns self, FALSE when it raises.  A
\* model instance is truthy, so each test is a test for not None.
validate_output(f) ==
    IF f["read_files"] = "set"
    THEN ~(f["analysis"] = "set" \/ f["current_state"] = "set")
    ELSE f["analysis"] = "set" /\ f["current_state"] = "set"

\* BrainOutput validation of a raw payload.  Unknown keys are ignored.
BrainOutput(r) ==
    LET f == [k \in BrainFields |-> BrainValidateField(k, r.fields[k])]
    IN  IF \E k \in BrainFields : f[k] = "error" THEN NoBrainOutput
        ELSE IF validate_output(f) THEN [ok |-> TRUE, fields |-> f]
        ELSE NoBrainOutput

\* First alternative of BRAIN_SCHEMA: analysis and current_state required and
\* objects with their required members, no other key.
BrainSchemaStateBranch(r) ==
    /\ r.fields["analysis"] = "obj"
    /\ r.fields["current_state"] = "obj"
    /\ r.fields["read_files"] = "absent"
    /\ ~r.extra

\* Second alternative: read_files required, files with minItems 1, no other key.
BrainSchemaReadFilesBranch(r) ==
    /\ r.fields["read_files"] = "obj"
    /\ r.fields["analysis"] = "absent"
    /\ r.fields["current_state"] = "absent"
    /\ ~r.extra

\* oneOf: exactly one alternative matches.
BRAIN_SCHEMA(r) == BrainSchemaStateBranch(r) # BrainSchemaReadFilesBranch(r)

\* BrainOutput.model_validate(payload)
brain_validate ==
    /\ brainPhase = "idle"
    /\ \E r \in BrainPayloads :
          /\ brainRaw' = r
          /\ brainOut' = BrainOutput(r)
    /\ brainPhase' = "validated"
    /\ UNCHANGED brainSchema
    /\ UNCHANGED <<inputVars, decodeVars, plannerVars, runnerVars>>

\* The same payload held against BRAIN_SCHEMA.
brain_schema_check ==
    /\ brainPhase = "validated"
    /\ brainSchema' = IF BRAIN_SCHEMA(brainRaw) THEN "valid" ELSE "invalid"
    /\ brainPhase' = "checked"
    /\ UNCHANGED <<brainRaw, brainOut>>
    /\ UNCHANGED <<inputVars, decodeVars, plannerVars, runnerVars>>

InitBrain == InputIdle /\ DecodeIdle /\ BrainIdle /\ PlannerIdle /\ RunnerIdle

NextBrain ==
    \/ brain_validate
    \/ brain_schema_check

SpecBrain == InitBrain /\ [][NextBrain]_vars

(***************************************************************************)
(* Planner._get_search_context (src/agent/planner_service.py)              *)
(***************************************************************************)
\* A summary line: the number of the query it came from and the index of the
\* formatted result line it was made of.
SummaryLine(q, idx) == [q |-> q, idx |-> idx]

\* The inner loop over the formatted lines of query q, which has n result lines,
\* starting from summary_lines = lines: append, then break at max_summary_lines;
\* break at idx >= 2.
RECURSIVE CollectLines(_, _, _, _)
CollectLines(lines, q, n, idx) ==
    IF idx >= n \/ idx >= LinesPerQuery THEN lines
    ELSE LET more == Append(lines, SummaryLine(q, idx))
         IN  IF Len(more) >= MaxSummaryLines THEN more
             ELSE CollectLines(more, q, n, idx + 1)

\* The test that leaves the loop over the queries after a query with results.
QueryLoopBreak(lines) ==
    Len(lines) >= MaxSummaryLines \/ Len(lines) >= MaxQueriesToUse * 2

\* The tail of _get_search_context once the loop over the queries is over: the
\* new value of _search_context, which is also what the call returns.
SummaryOf(lines, cached) == IF lines # <<>> THEN Context(lines) ELSE cached

\* A caller awaits _get_search_context(): the code up to its first await.
get_search_context_begin(c) ==
    /\ callPc[c] = "idle"
    /\ calls[c] < MaxCalls
    /\ calls' = [calls EXCEPT ![c] = @ + 1]
    /\ IF search_context # NoContext
       THEN /\ callRet' = [callRet EXCEPT ![c] = search_context]
            /\ callPc' = [callPc EXCEPT ![c] = "returned"]
            /\ UNCHANGED <<search_context, decideRuns>>
       ELSE IF ~use_search
       THEN /\ search_context' = Context(<<>>)
            /\ callRet' = [callRet EXCEPT ![c] = Context(<<>>)]
            /\ callPc' = [callPc EXCEPT ![c] = "returned"]
            /\ UNCHANGED decideRuns
       ELSE /\ search_context' = Context(<<>>)
            /\ callPc' = [callPc EXCEPT ![c] = "deciding"]
            /\ decideRuns' = decideRuns + 1
            /\ UNCHANGED callRet
    /\ UNCHANGED <<use_search, frame, fetchRuns>>
    /\ UNCHANGED <<inputVars, decodeVars, brainVars, runnerVars>>

\* _decide_search_queries returns a non-empty list of queries; the loop starts
\* and awaits the search for the first query.
decide_search_queries_return(c) ==
    /\ callPc[c] = "deciding"
    /\ \E nq \in 1..MaxQueries :
          frame' = [frame EXCEPT ![c] = [nq |-> nq, qi |-> 1, lines |-> <<>>]]
    /\ callPc' = [callPc EXCEPT ![c] = "fetching"]
    /\ fetchRuns' = fetchRuns + 1
    /\ UNCHANGED <<use_search, search_context, callRet, calls, decideRuns>>
    /\ UNCHANGED <<inputVars, decodeVars, brainVars, runnerVars>>

\* _fetch_search_results returns n results for the current query: the rest of
\* the loop body, then the next search or the end of the call.
fetch_search_results_return(c) ==
    /\ callPc[c] = "fetching"
    /\ \E n \in 0..MaxResults :
          LET f == frame[c]
              lines == IF n > 0 THEN CollectLines(f.lines, f.qi, n, 0) ELSE f.lines
              over == (n > 0 /\ QueryLoopBreak(lines)) \/ f.qi = f.nq
          IN  IF over
              THEN /\ frame' = [frame EXCEPT ![c] = [f EXCEPT !.lines = lines]]
                   /\ search_context' = SummaryOf(lines, search_context)
                   /\ callRet' = [callRet EXCEPT ![c] = search_context']
                   /\ callPc' = [callPc EXCEPT ![c] = "returned"]
                   /\ UNCHANGED fetchRuns
              ELSE /\ frame' = [frame EXCEPT ![c] =
                                   [f EXCEPT !.lines = lines, !.qi = f.qi + 1]]
                   /\ fetchRuns' = fetchRuns + 1
                   /\ UNCHANGED <<search_context, callRet, callPc>>
    /\ UNCHANGED <<use_search, calls, decideRuns>>
    /\ UNCHANGED <<inputVars, decodeVars, brainVars, runnerVars>>

\* The caller goes on with the value it got and may call again later.
caller_continue(c) ==
    /\ callPc[c] = "returned"
    /\ calls[c] < MaxCalls
    /\ callPc' = [callPc EXCEPT ![c] = "idle"]
    /\ UNCHANGED <<use_search, search_context, frame, callRet, calls,
                   decideRuns, fetchRuns>>
    /\ UNCHANGED <<inputVars, decodeVars, brainVars, runnerVars>>

InitPlanner ==
    /\ InputIdle /\ DecodeIdle /\ BrainIdle /\ RunnerIdle
    /\ use_search \in BOOLEAN
    /\ PlannerNew

NextPlanner ==
    \E c \in Callers :
        \/ get_search_context_begin(c)
        \/ decide_search_queries_return(c)
        \/ fetch_search_results_return(c)
        \/ caller_continue(c)

SpecPlanner == InitPlanner /\ [][NextPlanner]_vars

(***************************************************************************)
(* Force-stop hotkey and runner (examples/main.py)                         *)
(***************************************************************************)
TaskDone(t) == t \in {"finished", "failed", "cancelled"}

\* A call recorded in rlog, with agent_task.done() at the time of the call.
Call(name, done) == [call |-> name, done |-> done]

\* Faulty variant: the task is cancelled before the agent is told to stop.
ForceStopCalls_cancel_first(done) ==
    (IF ~done THEN <<Call("cancel", done)>> ELSE <<>>) \o <<Call("stop", done)>>

\* _force_stop: agent.stop(...), then agent_task.cancel() if not done.
ForceStopCalls(done) ==
    <<Call("stop", done)>> \o (IF ~done THEN <<Call("cancel", done)>> ELSE <<>>)

\* runner() up to `await agent_task`: the task is created; when a hotkey is
\* configured the listener is registered, or the registration raises and the
\* exception is logged.
runner_start ==
    /\ runnerPc = "start"
    /\ agent_task' = "running"
    /\ IF force_stop_hotkey
       THEN listener' \in {"started", "none"}
       ELSE listener' = "none"
    /\ runnerPc' = "awaiting"
    /\ UNCHANGED <<force_stop_hotkey, agentSteps, presses, pending, rlog>>
    /\ UNCHANGED <<inputVars, decodeVars, brainVars, plannerVars>>

\* The listener thread sees the hotkey: _on_activate schedules _force_stop.
on_activate ==
    /\ listener = "started"
    /\ presses < MaxPresses
    /\ presses' = presses + 1
    /\ pending' = pending + 1
    /\ UNCHANGED <<force_stop_hotkey, runnerPc, agent_task, agentSteps, listener, rlog>>
    /\ UNCHANGED <<inputVars, decodeVars, brainVars, plannerVars>>

\* The loop runs a scheduled _force_stop.
force_stop ==
    /\ pending > 0
    /\ pending' = pending - 1
    /\ rlog' = rlog \o ForceStopCalls(TaskDone(agent_task))
    /\ agent_task' = IF TaskDone(agent_task) THEN agent_task ELSE "cancelling"
    /\ UNCHANGED <<force_stop_hotkey, runnerPc, agentSteps, listener, presses>>
    /\ UNCHANGED <<inputVars, decodeVars, brainVars, plannerVars>>

\* agent.run takes a step.
agent_step ==
    /\ agent_task = "running"
    /\ agentSteps < MaxAgentSteps
    /\ agentSteps' = agentSteps + 1
    /\ UNCHANGED <<force_stop_hotkey, runnerPc, agent_task, listener, presses,
                   pending, rlog>>
    /\ UNCHANGED <<inputVars, decodeVars, brainVars, plannerVars>>

\* agent.run returns or raises.
agent_finish ==
    /\ agent_task = "running"
    /\ agent_task' \in {"finished", "failed"}
    /\ UNCHANGED <<force_stop_hotkey, runnerPc, agentSteps, listener, presses,
                   pending, rlog>>
    /\ UNCHANGED <<inputVars, decodeVars, brainVars, plannerVars>>

\* The requested cancellation reaches agent.run at its suspension point and
\* ends the task.
cancel_delivered ==
    /\ agent_task = "cancelling"
    /\ agent_task' = "cancelled"
    /\ UNCHANGED <<force_stop_hotkey, runnerPc, agentSteps, listener, presses,
                   pending, rlog>>
    /\ UNCHANGED <<inputVars, decodeVars, brainVars, plannerVars>>

\* `await agent_task` ends: CancelledError is caught, any other exception
\* propagates; the finally block stops the listener if there is one.
runner_resume ==
    /\ runnerPc = "awaiting"
    /\ TaskDone(agent_task)
    /\ IF listener = "started"
       THEN /\ listener' = "stopped"
            /\ rlog' = Append(rlog, Call("listener_stop", TRUE))
       ELSE UNCHANGED <<listener, rlog>>
    /\ runnerPc' = IF agent_task = "failed" THEN "raised" ELSE "returned"
    /\ UNCHANGED <<force_stop_hotkey, agent_task, agentSteps, presses, pending>>
    /\ UNCHANGED <<inputVars, decodeVars, brainVars, plannerVars>>

InitRunner ==
    /\ InputIdle /\ DecodeIdle /\ BrainIdle /\ PlannerIdle
    /\ force_stop_hotkey \in BOOLEAN
    /\ RunnerNew

NextRunner ==
    \/ runner_start
    \/ on_activate
    \/ force_stop
    \/ agent_step
    \/ agent_finish
    \/ cancel_delivered
    \/ runner_resume

SpecRunner == InitRunner /\ [][NextRunner]_vars

\* The event loop runs every ready callback and every task that can go on.
SpecRunnerLive ==
    /\ SpecRunner
    /\ WF_vars(force_stop)
    /\ WF_vars(cancel_delivered)
    /\ WF_vars(runner_resume)

(***************************************************************************)
(* Claims about the input synthesizer, stated for SpecInput                 *)
(***************************************************************************)
IsPointerOp == op.name \in {"left_click_pixel", "right_click_pixel", "move_to"}
IsClick == op.name \in {"left_click_pixel", "right_click_pixel"}
IsDrag == op.name \in {"drag_pixel", "_drag_invisible"}
BothAboveOne(position) == RGt(position[1], R(1)) /\ RGt(position[2], R(1))
InUnit(v) == RLe(R(0), v) /\ RLe(v, R(1))
BothInUnit(position) == InUnit(position[1]) /\ InUnit(position[2])

\* The posted events of the log (suspensions left out), in order.
Posted == SelectSeq(events, LAMBDA e : e.type # "sleep")
AllPostedAt(x, y) == \A i \in 1..Len(events) :
    events[i].type # "sleep" => events[i].x = x /\ events[i].y = y

\* v/1000 * dim and v * dim, written as single fractions.
PerMille(v, dim) == Norm(v[1] * dim, v[2] * 1000)
Fraction(v, dim) == Norm(v[1] * dim, v[2])

\* C1 (as stated): for a position with both components > 1, left_click_pixel,
\* right_click_pixel and move_to post their events at exactly (x, y), unchanged.
C1_AbsoluteUnchanged ==
    (IsPointerOp /\ BothAboveOne(op.position))
        => AllPostedAt(op.position[1], op.position[2])

\* C1 (amended): for a position with both components > 1, the three operations
\* post every event at (x/1000*W, y/1000*H).
C1_AboveOneIsPerMille ==
    (IsPointerOp /\ BothAboveOne(op.position))
        => /\ AllPostedAt(PerMille(op.position[1], screen[1]),
                          PerMille(op.position[2], screen[2]))
           /\ Len(events) >= 1

C1_Witness ==
    /\ op.name = "left_click_pixel"
    /\ op.position = <<R(2), R(500)>>
    /\ screen = <<1440, 900>>
    /\ pc = "done"
    /\ Len(Posted) = 3

\* C2 (as stated): for a position with both components in [0, 1], the three
\* operations post their events at (x/1000*W, y/1000*H).
C2_UnitIsPerMille ==
    (IsPointerOp /\ BothInUnit(op.position))
        => AllPostedAt(PerMille(op.position[1], screen[1]),
                       PerMille(op.position[2], screen[2]))

\* C2 (amended): for a position with both components in [0, 1], the three
\* operations post every event at (x*W, y*H).
C2_UnitIsFraction ==
    (IsPointerOp /\ BothInUnit(op.position))
        => /\ AllPostedAt(Fraction(op.position[1], screen[1]),
                          Fraction(op.position[2], screen[2]))
           /\ Len(events) >= 1

C2_Witness ==
    /\ op.name = "right_click_pixel"
    /\ op.position = <<<<1, 2>>, R(1)>>
    /\ screen = <<2000, 1000>>
    /\ pc = "done"
    /\ Len(Posted) = 3

\* C3: a left click at position [500, 500] on a 2000x1000 screen posts its
\* pointer-moved, button-down and button-up events all at pixel (1000, 500).
C3_Scenario ==
    (/\ op.name = "left_click_pixel"
     /\ op.position = <<R(500), R(500)>>
     /\ screen = <<2000, 1000>>)
        => /\ AllPostedAt(R(1000), R(500))
           /\ Len(Posted) >= 1
           /\ pc = "done" =>
                 [i \in 1..Len(Posted) |-> Posted[i].type] = <<"moved", "down", "up">>

C3_Witness ==
    /\ op.name = "left_click_pixel"
    /\ op.position = <<R(500), R(500)>>
    /\ screen = <<2000, 1000>>
    /\ pc = "done"
    /\ result = "True"

\* C8: the highlight task never delays, blocks or fails its click: button-down
\* and button-up are posted when the 30 ms settle sleep expires, without waiting
\* for the highlight's run to end, and a highlight that raised leaves the click's
\* three events posted and its result successful.
C8_HighlightNeverDelaysClick ==
    IsClick =>
        /\ \A i \in 1..Len(events) :
              events[i].type \in {"down", "up"} => RLe(events[i].ts, R(SettleMs))
        /\ (pc = "done" /\ hl = "failed") => (result = "True" /\ Len(Posted) = 3)

\* The pixel a click resolves to, and the log of a complete click.
ExpectedClickPixel ==
    IF BothAboveOne(op.position)
    THEN <<PerMille(op.position[1], screen[1]), PerMille(op.position[2], screen[2])>>
    ELSE <<Fraction(op.position[1], screen[1]), Fraction(op.position[2], screen[2])>>

ExpectedClickTypes == <<"moved", "sleep", "down", "up">>

Lerp(a, b, i, n) == RDiv(RAdd(RMul(R(n - i), a), RMul(R(i), b)), R(n))

ExpectedDragEntry(k, n) ==
    IF k = 1
    THEN [type |-> "down", x |-> target[1], y |-> target[2], button |-> "left",
          dur |-> R(0)]
    ELSE IF k = 2 * n + 2
    THEN [type |-> "up", x |-> target2[1], y |-> target2[2], button |-> "left",
          dur |-> R(0)]
    ELSE IF k % 2 = 0
    THEN [type |-> "dragged", x |-> Lerp(target[1], target2[1], k \div 2, n),
          y |-> Lerp(target[2], target2[2], k \div 2, n), button |-> "left",
          dur |-> R(0)]
    ELSE [type |-> "sleep", x |-> R(0), y |-> R(0), button |-> "none",
          dur |-> Norm(op.duration[1], op.duration[2] * n)]

LogEntry(e) == [type |-> e.type, x |-> e.x, y |-> e.y, button |-> e.button,
                dur |-> e.dur]

\* C10: a drag with steps = N >= 1 posts one left-button-down at the start pixel,
\* then for i = 1..N one dragged event at start + (end - start)*i/N followed by
\* one suspension of duration/N, then one left-button-up at the end pixel; the
\* N-th dragged event is at the end pixel, and drag_pixel uses N = 60.
C10_DragSequence ==
    (IsDrag /\ op.steps >= 1) =>
        /\ Len(events) <= 2 * op.steps + 2
        /\ \A k \in 1..Len(events) :
              LogEntry(events[k]) = ExpectedDragEntry(k, op.steps)
        /\ Len(events) >= 2 * op.steps =>
              /\ events[2 * op.steps].x = target2[1]
              /\ events[2 * op.steps].y = target2[2]
        /\ pc = "drag" => Len(events) = 2 * dragI + 1
        /\ pc = "done" => (Len(events) = 2 * op.steps + 2 /\ result = "True")
        /\ op.name = "drag_pixel" => op.steps = 60
        /\ op.name = "_drag_invisible" =>
              (target = op.position /\ target2 = op.position2)

C10_Witness ==
    /\ op.name = "drag_pixel"
    /\ pc = "done"
    /\ target # target2
    /\ Len(events) = 122
    /\ Len(SelectSeq(events, LAMBDA e : e.type = "dragged")) = 60

(***************************************************************************)
(* Claims about the action decoder, stated for SpecDecode                  *)
(***************************************************************************)
Decoded == phase \in {"decoded", "dumped", "redecoded"}
NonNull(r) == {k \in KindSet : r.fields[k] \notin {"absent", "null"}}
NoFieldRejected(r) == \A k \in KindSet : r.fields[k] # "bad"

\* C4: every successfully constructed ActionItem has at most one populated kind;
\* decoding an entry with two or more non-null kind fields fails.
C4_AtMostOnePopulated ==
    Decoded =>
        /\ item.ok => Cardinality(Populated(item)) <= 1
        /\ Cardinality(NonNull(raw)) >= 2 => ~item.ok

\* C5: no successfully constructed ActionItem has zero populated kinds: an entry
\* that populates no kind fails or becomes a default wait instance.
C5_NeverZeroPopulated ==
    Decoded =>
        /\ item.ok => Populated(item) # {}
        /\ (NonNull(raw) = {} /\ item.ok) => Populated(item) = {"wait"}

\* The wait values the decoder is lenient about.
LenientWait == {"empty_string", "null", "empty_obj", "non_object"}

\* C6: an entry whose wait value is the empty string, null, {} or a non-object
\* decodes to a valid ActionItem with wait populated, and decoding the serialized
\* form of that instance yields an equal instance.
C6_WaitLeniencyIdempotent ==
    (Decoded /\ raw.fields["wait"] \in LenientWait) =>
        /\ NoFieldRejected(raw) => item.ok
        /\ item.ok => item.fields["wait"] = "set"
        /\ (NonNull(raw) \subseteq {"wait"}) => (item.ok /\ Populated(item) = {"wait"})
        /\ phase \in {"dumped", "redecoded"} => wire.fields["wait"] = "empty_obj"
        /\ phase = "redecoded" => item2 = item

C6_Witness ==
    /\ phase = "redecoded"
    /\ raw.fields["wait"] = "null"
    /\ NonNull(raw) = {}
    /\ item.ok
    /\ Populated(item) = {"wait"}
    /\ item2 = item

AllDecodable(l) == \A i \in 1..Len(l) : l[i] # BadEntry

\* C7: ActorOutput accepts a list of decodable entries if and only if it has
\* between 0 and 10 entries; a longer list is rejected, not truncated, and an
\* accepted list keeps its entries in input order.
C7_ActionListBound ==
    phase = "validated" =>
        /\ AllDecodable(rawList) => (actorOut.ok <=> Len(rawList) \in 0..10)
        /\ Len(rawList) >= 11 => (~actorOut.ok /\ actorOut.action = <<>>)
        /\ actorOut.ok =>
              /\ Len(actorOut.action) = Len(rawList)
              /\ \A i \in 1..Len(rawList) :
                    /\ actorOut.action[i].ok
                    /\ rawList[i] = ClickEntry
                          => Populated(actorOut.action[i]) = {"Click"}
                    /\ rawList[i] = WaitEntry
                          => Populated(actorOut.action[i]) = {"wait"}

C7_Witness ==
    /\ phase = "validated"
    /\ Len(rawList) = 11
    /\ AllDecodable(rawList)
    /\ rawList[1] = ClickEntry /\ rawList[2] = WaitEntry
    /\ ~actorOut.ok

\* C11: a drag from position (0, 0) to position (1000, 1000) on a 1000x1000
\* screen with the default steps posts button-down at pixel (0, 0), 60 dragged
\* events, and button-up at pixel (1000, 1000).
C11_FullScreenDragScenario ==
    (/\ op.name = "drag_pixel"
     /\ op.position = <<R(0), R(0)>>
     /\ op.position2 = <<R(1000), R(1000)>>
     /\ screen = <<1000, 1000>>)
        => /\ events[1].type = "down" /\ events[1].x = R(0) /\ events[1].y = R(0)
           /\ pc = "done" =>
                 /\ Len(SelectSeq(events, LAMBDA e : e.type = "dragged")) = 60
                 /\ events[Len(events)].type = "up"
                 /\ events[Len(events)].x = R(1000)
                 /\ events[Len(events)].y = R(1000)

(***************************************************************************)
(* Scrolling, stated for SpecInput                                         *)
(***************************************************************************)
\* The scroll-wheel events of the log, in posting order.
ScrollEvents == SelectSeq(events, LAMBDA e : e.type = "scroll")

\* The warps of the log, in order.
WarpEvents == SelectSeq(events, LAMBDA e : e.type = "warp")

IsScroll ==
    op.name \in {"scroll_up", "scroll_down", "_scroll_invisible",
                 "_scroll_invisible_at_position"}

Min(a, b) == IF a < b THEN a ELSE b

\* C12: for every amount >= 0, scroll_up(amount) and scroll_down(amount) post
\* exactly min(amount, 25) single-line scroll-wheel events; never more while the
\* call runs, exactly that many once it has returned.
C12_ClampedScrollCount ==
    (op.name \in {"scroll_up", "scroll_down"} /\ op.amount >= 0)
        => /\ Len(ScrollEvents) <= Min(op.amount, 25)
           /\ pc = "done" => Len(ScrollEvents) = Min(op.amount, 25)
           /\ \A i \in 1..Len(ScrollEvents) : Abs(ScrollEvents[i].arg) = 1

\* scroll_down(30) has returned after 25 events.
C12_Witness ==
    /\ op.name = "scroll_down"
    /\ op.amount = 30
    /\ pc = "done"
    /\ Len(ScrollEvents) = 25

\* C13: for every integer line count reaching any scroll entry point, one call
\* never posts more than 25 scroll-wheel events.
C13_NeverMoreThan25 == IsScroll => Len(ScrollEvents) <= 25

C15_ScrollTargetIsClickTarget ==
    op.name = "_scroll_invisible_at_position"
        => \A i \in 1..Len(WarpEvents) :
              <<WarpEvents[i].x, WarpEvents[i].y>>
                  = left_click_resolve(op.position, screen[1], screen[2])

C17_NestedCombination ==
    op.name = "press_combination"
        => LET n == Len(op.keys)
           IN  /\ n \in {2, 3}
               /\ Len(events) = 2 * n
               /\ \A i \in 1..n :
                     /\ events[i].type = "keyDown"
                     /\ events[i].key = op.keys[i]
                     /\ events[2 * n + 1 - i].type = "keyUp"
                     /\ events[2 * n + 1 - i].key = op.keys[i]

\* A three-key combination of distinct keys has been issued.
C17_Witness ==
    /\ op.name = "press_combination"
    /\ op.keys = <<"command", "shift", "3">>
    /\ pc = "done"
    /\ Len(events) = 6
    /\ events[4].key = "3"

\* C18: for every input string of length n, type_into posts exactly 2n keyboard
\* events: events 2i-1 and 2i are the key-down and the key-up carrying the i-th
\* character, so no event of a later character precedes the key-up of an
\* earlier one.
C18_TypePairsInOrder ==
    op.name = "type_into"
        => LET n == Len(op.text)
           IN  /\ Len(events) = 2 * n
               /\ \A i \in 1..n :
                     /\ events[2 * i - 1].type = "unicode_down"
                     /\ events[2 * i - 1].arg = op.text[i]
                     /\ events[2 * i].type = "unicode_up"
                     /\ events[2 * i].arg = op.text[i]
                     /\ events[2 * i].units = events[2 * i - 1].units
                     /\ events[2 * i].units = IF op.text[i] >= 65536 THEN 2 ELSE 1

\* A text of three different characters, one outside the basic plane, was typed.
C18_Witness ==
    /\ op.name = "type_into"
    /\ op.text = <<97, 128512, 233>>
    /\ pc = "done"
    /\ Len(events) = 6
    /\ events[3].units = 2

(***************************************************************************)
(* Failure reporting, stated for SpecInput                                 *)
(***************************************************************************)
\* C19: every failure of an Input Synthesizer operation is reported as a value
\* returned to the caller: no operation ends with an exception propagating out
\* of it.
C19_NoExceptionPropagates == pc = "done" => result # "raised"

(***************************************************************************)
(* Drag timestamps, stated for SpecInput                                   *)
(***************************************************************************)
\* The dragged events of the log, in posting order.
DraggedEvents == SelectSeq(events, LAMBDA e : e.type = "dragged")

\* C20: every dragged event carries a timestamp, and within one drag the
\* timestamp set on an earlier dragged event is smaller than the one set on a
\* later one, for every duration and step count.
C20_DragTimestampsIncrease ==
    IsDrag
        => /\ \A i \in 1..Len(DraggedEvents) : DraggedEvents[i].stamped
           /\ \A i, j \in 1..Len(DraggedEvents) :
                 i < j => RGt(DraggedEvents[j].ts, DraggedEvents[i].ts)

(***************************************************************************)
(* Button release of a drag, stated for SpecInput                          *)
(***************************************************************************)
\* C23: for every call of _drag_invisible, with any steps and duration, a posted
\* left-button-down is followed by a left-button-up before the call ends,
\* whether it returns or raises.
C23_DragReleasesButton ==
    (IsDrag /\ pc = "done")
        => \A i \in 1..Len(events) :
              events[i].type = "down"
                  => \E j \in (i + 1)..Len(events) : events[j].type = "up"

(***************************************************************************)
(* Null kinds, stated for SpecDecode                                       *)
(***************************************************************************)
\* C24: decoding populates a kind only when the entry supplied a non-null value
\* for it; an entry with one real action kind plus an explicit `wait: null`
\* decodes to an ActionItem in which only that kind is populated.
C24_NullKindsStayAbsent ==
    (Decoded /\ item.ok)
        => /\ Populated(item) \subseteq NonNull(raw)
           /\ \A k \in KindSet \ {"wait"} :
                 (raw.fields[k] = "obj" /\ raw.fields["wait"] = "null")
                     => Populated(item) = {k}

(***************************************************************************)
(* Brain output shapes, stated for SpecBrain                               *)
(***************************************************************************)
\* A field counts as present when the payload supplies a non-null value for it.
BrainPresent(k) == brainRaw.fields[k] \notin {"absent", "null"}

\* Every supplied value is one its sub-model accepts.
BrainWellFormed ==
    \A k \in BrainFields : brainRaw.fields[k] \in {"absent", "null", "obj", "empty_files"}

\* C22: BrainOutput validation accepts an output if and only if it is one of two
\* shapes: read_files present with analysis and current_state both absent, or
\* read_files absent with analysis and current_state both present; every other
\* combination is rejected.
C22_TwoShapes ==
    brainPhase # "idle"
        => (brainOut.ok <=>
               /\ BrainWellFormed
               /\ \/ /\ BrainPresent("read_files")
                     /\ ~BrainPresent("analysis")
                     /\ ~BrainPresent("current_state")
                  \/ /\ ~BrainPresent("read_files")
                     /\ BrainPresent("analysis")
                     /\ BrainPresent("current_state"))

\* A read-files request that also carries a current_state was rejected.
C22_Witness ==
    /\ brainPhase = "validated"
    /\ brainRaw.fields["read_files"] = "obj"
    /\ brainRaw.fields["current_state"] = "obj"
    /\ brainRaw.fields["analysis"] = "absent"
    /\ ~brainOut.ok

\* C25: every payload that BrainOutput validation accepts also satisfies
\* BRAIN_SCHEMA; in particular a read_files request is accepted only when its
\* files list has at least one entry.
C25_AcceptedSatisfiesSchema ==
    (brainPhase = "checked" /\ brainOut.ok)
        => /\ brainSchema = "valid"
           /\ brainRaw.fields["read_files"] # "empty_files"

(***************************************************************************)
(* Planner search context, stated for SpecPlanner                          *)
(***************************************************************************)
\* No call is inside the search any more, and one has been.
SearchRunOver ==
    /\ decideRuns >= 1
    /\ \A c \in Callers : callPc[c] \notin {"deciding", "fetching"}

\* C21: for any number and interleaving of calls of _get_search_context on one
\* Planner, the query generation is run at most once and each query is searched
\* at most once, and every call returns the summary that single run produced.
C21_SearchOnceSharedSummary ==
    /\ decideRuns <= 1
    /\ \A c \in Callers : frame[c].nq > 0 => fetchRuns <= frame[c].nq
    /\ SearchRunOver
          => \A c \in Callers : callRet[c] # NoContext => callRet[c] = search_context

\* The queries a list of summary lines was drawn from.
QueriesOf(lines) == {lines[i].q : i \in 1..Len(lines)}

\* C26: the aggregated search summary takes at most 2 lines from any one query,
\* never has more than max_summary_lines = 8 lines, and draws its lines from at
\* most max_queries_to_use = 3 queries.
C26_SummaryBounds ==
    \A c \in Callers :
        LET lines == frame[c].lines
        IN  /\ \A q \in QueriesOf(lines) :
                  Cardinality({i \in 1..Len(lines) : lines[i].q = q}) <= 2
            /\ Len(lines) <= 8
            /\ Cardinality(QueriesOf(lines)) <= 3

(***************************************************************************)
(* Force stop, stated for SpecRunnerLive                                   *)
(***************************************************************************)
RunnerExited == runnerPc \in {"returned", "raised"}

\* agent.stop precedes each cancel, a cancel is issued exactly when the task was
\* not done, and a runner that has exited has left no listener running.
ForceStopOrder ==
    /\ \A i \in 1..Len(rlog) :
          /\ rlog[i].call = "cancel"
                => /\ ~rlog[i].done
                   /\ i > 1 /\ rlog[i - 1].call = "stop"
          /\ (rlog[i].call = "stop" /\ rlog[i].done)
                => (i = Len(rlog) \/ rlog[i + 1].call # "cancel")
    /\ RunnerExited => listener # "started"

\* The hotkey has fired and the agent task is still running.
HotkeyWhileRunning == pending > 0 /\ agent_task = "running"

\* C27: when the force-stop hotkey fires while the agent task is still running,
\* agent.stop is called before the task is cancelled, cancel is issued only if
\* the task is not already done, the runner then terminates, and the listener
\* is stopped on every exit path of the runner; a press after the task has
\* finished cancels nothing.
C27_ForceStop ==
    /\ []ForceStopOrder
    /\ HotkeyWhileRunning ~> RunnerExited

\* A force stop of a running task: stop, cancel, then the listener stopped.
C27_Witness ==
    /\ runnerPc = "returned"
    /\ agent_task = "cancelled"
    /\ listener = "stopped"
    /\ Len(rlog) = 3
    /\ rlog[1].call = "stop" /\ rlog[2].call = "cancel"
    /\ rlog[3].call = "listener_stop"

====
